---- MODULE Spec2Model ----
(***************************************************************************)
(* Model of youtube_downloader.py: the hardware capability prober          *)
(* (detect_hardware_acceleration), the format selector (filter_formats,    *)
(* get_best_formats), the bitrate planning at the head of convert_to_hevc, *)
(* and the driver (main, download_video, convert_to_hevc,                  *)
(* convert_to_hevc_fallback) with the directory of files they work on.     *)
(***************************************************************************)
EXTENDS Integers, Sequences, FiniteSets, TLC

VARIABLES
    pc,                 \* position of the run: a line label of main / convert_to_hevc / fallback
    exit_status,        \* -1 while running, else the process exit status
    tools,              \* outcome of the yt-dlp / ffmpeg presence check
    info,               \* outcome of get_video_info
    video_info,         \* the 'formats' list of the metadata document
    best_video,         \* <<>> for None, <<descriptor>> otherwise
    best_audio,
    confirm,            \* answer to "download?"
    dl,                 \* outcome of the yt-dlp child in download_video
    output_file,        \* value returned by download_video (<<>> for None)
    compress,           \* answer to "compress?"
    fs,                 \* directory contents: path -> content tag ("absent" when no file)
    faults,             \* history: the file operations that raised so far, in order
    video_bitrate,      \* kbps planned by convert_to_hevc (0 before planning)
    audio_bitrate,
    hw_accel,           \* result of detect_hardware_acceleration
    final_output_file,  \* local of convert_to_hevc (reassigned at line 458)
    fb_caller,          \* which call site of convert_to_hevc_fallback is active: 474 or 493
    fb_final,           \* local final_output_file of convert_to_hevc_fallback
    fallback_output_file,
    ret,                \* what convert_to_hevc returned: [kind, path]
    encLog,             \* history: every encoder process started, with its outcome
    fbLog,              \* history: what each call of convert_to_hevc_fallback returned
    probe               \* host facts read by detect_hardware_acceleration (prober specification)

vars == <<pc, exit_status, tools, info, video_info, best_video, best_audio, confirm, dl, output_file,
          compress, fs, faults, video_bitrate, audio_bitrate, hw_accel,
          final_output_file, fb_caller, fb_final, fallback_output_file, ret,
          encLog, fbLog, probe>>

(***************************************************************************)
(* Bounds                                                                  *)
(***************************************************************************)
\* how many file operations may raise in one run
MaxFaults == 3
\* longest 'formats' list handed to the selector on its own
MaxFormats == 3

None == <<>>

(***************************************************************************)
(* detect_hardware_acceleration (lines 121-210)                            *)
(***************************************************************************)
\* outcome of subprocess.run([tool]): the child's exit status, or the
\* exception raised when launching it
RunOutcomes == {"exit0", "exit1", "FileNotFoundError", "OSError"}

Systems == {"Darwin", "Windows", "Linux", "Other"}

\* a host: platform.system(), the outcome of each probe tool and what it prints.
\* gpu_text is the set of vendor markers in the GPU enumeration text.
ProbeEnvs ==
    [system : Systems,
     nvidia : RunOutcomes,
     powershell : RunOutcomes,
     gpu_text : SUBSET {"AMD", "Intel"},
     vainfo : RunOutcomes,
     va_hevc : BOOLEAN]

NoProbe ==
    [system |-> "Other", nvidia |-> "FileNotFoundError", powershell |-> "FileNotFoundError",
     gpu_text |-> {}, vainfo |-> "FileNotFoundError", va_hevc |-> FALSE]

VideoToolbox == [encoder |-> "hevc_videotoolbox", hwaccel |-> <<"videotoolbox">>, options |-> <<"-allow_sw", "1">>]
Nvenc == [encoder |-> "hevc_nvenc", hwaccel |-> <<"cuda">>, options |-> <<"-rc", "vbr_hq">>]
Amf == [encoder |-> "hevc_amf", hwaccel |-> <<"amf">>, options |-> <<"-quality", "quality">>]
Qsv == [encoder |-> "hevc_qsv", hwaccel |-> <<"qsv">>, options |-> <<"-load_plugin", "hevc_hw">>]
Vaapi == [encoder |-> "hevc_vaapi", hwaccel |-> <<"vaapi">>, options |-> <<"-vaapi_device", "/dev/dri/renderD128">>]
Software == [encoder |-> "libx265", hwaccel |-> None, options |-> <<"-preset", "medium">>]

\* the function's outcome: a returned profile, or the exception that left it
Returned(p) == [raised |-> FALSE, profile |-> p]
Raised == [raised |-> TRUE, profile |-> [encoder |-> "", hwaccel |-> None, options |-> <<>>]]
NotDetected == [raised |-> FALSE, profile |-> [encoder |-> "", hwaccel |-> None, options |-> <<>>]]

\* lines 164-174: gpu_info is unbound when the PowerShell launch raised; the
\* NameError is swallowed by "except Exception"
detect_windows_intel(e) ==
    IF e.powershell \in {"exit0", "exit1"} /\ "Intel" \in e.gpu_text
    THEN Returned(Qsv)
    ELSE Returned(Software)

\* lines 148-162: the exit status of PowerShell is not looked at; any
\* exception is swallowed
detect_windows_amd(e) ==
    IF e.powershell \in {"exit0", "exit1"} /\ "AMD" \in e.gpu_text
    THEN Returned(Amf)
    ELSE detect_windows_intel(e)

\* lines 191-202
detect_linux_vaapi(e) ==
    IF e.vainfo = "OSError" THEN Raised
    ELSE IF e.vainfo = "exit0" /\ e.va_hevc THEN Returned(Vaapi)
    ELSE Returned(Software)

\* the same prober with the two Windows text checks in the other order
detect_intel_first(e) ==
    IF e.system = "Darwin" THEN Returned(VideoToolbox)
    ELSE IF e.system = "Windows" THEN
        IF e.nvidia = "OSError" THEN Raised
        ELSE IF e.nvidia = "exit0" THEN Returned(Nvenc)
        ELSE IF e.powershell \in {"exit0", "exit1"} /\ "Intel" \in e.gpu_text THEN Returned(Qsv)
        ELSE IF e.powershell \in {"exit0", "exit1"} /\ "AMD" \in e.gpu_text THEN Returned(Amf)
        ELSE Returned(Software)
    ELSE IF e.system = "Linux" THEN
        IF e.nvidia = "OSError" THEN Raised
        ELSE IF e.nvidia = "exit0" THEN Returned(Nvenc)
        ELSE detect_linux_vaapi(e)
    ELSE Returned(Software)

\* lines 121-210. Only FileNotFoundError is caught around nvidia-smi and
\* vainfo, so any other launch error leaves the function.
detect_hardware_acceleration(e) ==
    IF e.system = "Darwin" THEN Returned(VideoToolbox)
    ELSE IF e.system = "Windows" THEN
        IF e.nvidia = "OSError" THEN Raised
        ELSE IF e.nvidia = "exit0" THEN Returned(Nvenc)
        ELSE detect_windows_amd(e)
    ELSE IF e.system = "Linux" THEN
        IF e.nvidia = "OSError" THEN Raised
        ELSE IF e.nvidia = "exit0" THEN Returned(Nvenc)
        ELSE detect_linux_vaapi(e)
    ELSE Returned(Software)

(***************************************************************************)
(* Stream descriptors, filter_formats (47-60), get_best_formats (62-89)    *)
(***************************************************************************)
\* a dictionary entry: a number, null (None), or the key is missing
Num(n) == [t |-> "num", n |-> n]
Null == [t |-> "null", n |-> 0]
Missing == [t |-> "missing", n |-> 0]

\* x.get(key, 0) or 0
get_or_0(f) == IF f.t = "num" THEN f.n ELSE 0

Descriptor(id, vc, ac, h, tbr, abr, fps) ==
    [format_id |-> id, vcodec |-> vc, acodec |-> ac, height |-> h, tbr |-> tbr, abr |-> abr,
     fps |-> fps]

\* the video rule without its audio-codec test
is_video_only_any_audio(fmt) == fmt.vcodec # "none"

\* lines 52-58; a missing codec key reads as None, which differs from 'none'
is_video_only(fmt) == fmt.vcodec # "none" /\ fmt.acodec = "none"
is_audio_only(fmt) == ~is_video_only(fmt) /\ fmt.acodec # "none" /\ fmt.vcodec = "none"

filter_formats(formats) ==
    [video_formats |-> SelectSeq(formats, is_video_only),
     audio_formats |-> SelectSeq(formats, is_audio_only)]

\* lines 67-70: key (height or 0, tbr or 0), compared as a tuple
video_key(x) == <<get_or_0(x.height), get_or_0(x.tbr)>>

\* line 77
audio_key(x) == <<get_or_0(x.tbr)>>

\* Python's tuple order on keys of equal length
RECURSIVE key_less(_, _)
key_less(a, b) ==
    IF a = <<>> THEN FALSE
    ELSE IF Head(a) # Head(b) THEN Head(a) < Head(b)
    ELSE key_less(Tail(a), Tail(b))

\* an insertion that puts x before the entries of equal key
RECURSIVE insert_desc_before_equal(_, _)
insert_desc_before_equal(x, sorted) ==
    IF sorted = <<>> THEN <<x>>
    ELSE IF ~key_less(x.key, Head(sorted).key) THEN <<x>> \o sorted
    ELSE <<Head(sorted)>> \o insert_desc_before_equal(x, Tail(sorted))

\* sorted(..., reverse=True) on entries [key, item]: descending and stable
\* (equal keys keep input order). x goes after every entry whose key is not
\* less than x's.
RECURSIVE insert_desc(_, _)
insert_desc(x, sorted) ==
    IF sorted = <<>> THEN <<x>>
    ELSE IF key_less(Head(sorted).key, x.key) THEN <<x>> \o sorted
    ELSE <<Head(sorted)>> \o insert_desc(x, Tail(sorted))

RECURSIVE sorted_desc(_)
sorted_desc(seq) ==
    IF seq = <<>> THEN <<>>
    ELSE insert_desc(seq[Len(seq)], sorted_desc(SubSeq(seq, 1, Len(seq) - 1)))

\* lines 62-89: the head of each sorted list, or None
get_best_formats(video_formats, audio_formats) ==
    LET sorted_videos ==
            sorted_desc([i \in 1..Len(video_formats) |->
                [key |-> video_key(video_formats[i]), item |-> video_formats[i]]])
        sorted_audios ==
            sorted_desc([i \in 1..Len(audio_formats) |->
                [key |-> audio_key(audio_formats[i]), item |-> audio_formats[i]]])
    IN  [video |-> IF sorted_videos = <<>> THEN None ELSE <<sorted_videos[1].item>>,
         audio |-> IF sorted_audios = <<>> THEN None ELSE <<sorted_audios[1].item>>]

(***************************************************************************)
(* Bitrate planning in convert_to_hevc (335-369)                           *)
(***************************************************************************)
Planned(k) == [raised |-> FALSE, kbps |-> k]
\* int(None), or None >= 2160: TypeError
TypeError == [raised |-> TRUE, kbps |-> 0]

\* lines 343-353
height_tier(height) ==
    IF height >= 2160 THEN 30000
    ELSE IF height >= 1440 THEN 15000
    ELSE IF height >= 1080 THEN 8000
    ELSE IF height >= 720 THEN 4000
    ELSE 2000

\* lines 336-356; "'tbr' in video_format" is true for a null entry as well
plan_video_bitrate(video_format) ==
    IF video_format # None /\ video_format[1].tbr.t # "missing" THEN
        IF video_format[1].tbr.t = "null" THEN TypeError
        ELSE Planned(video_format[1].tbr.n)
    ELSE IF video_format # None /\ video_format[1].height.t # "missing" THEN
        IF video_format[1].height.t = "null" THEN TypeError
        ELSE Planned(height_tier(video_format[1].height.n))
    ELSE Planned(8000)

\* lines 359-369
plan_audio_bitrate(audio_format) ==
    IF audio_format # None /\ audio_format[1].tbr.t # "missing" THEN
        IF audio_format[1].tbr.t = "null" THEN TypeError
        ELSE Planned(audio_format[1].tbr.n)
    ELSE IF audio_format # None /\ audio_format[1].abr.t = "num" THEN
        Planned(audio_format[1].abr.n)
    ELSE Planned(192)

(***************************************************************************)
(* Inputs of a run                                                         *)
(***************************************************************************)
V1080 == Descriptor("137", "avc1", "none", Num(1080), Num(5000), Missing, Num(30))
V720n == Descriptor("136", "avc1", "none", Num(720), Null, Missing, Null)
V2160 == Descriptor("313", "vp9", "none", Num(2160), Missing, Missing, Missing)
A128 == Descriptor("140", "none", "mp4a", Missing, Num(128), Missing, Missing)
A160 == Descriptor("251", "none", "opus", Missing, Missing, Num(160), Missing)
Muxed == Descriptor("18", "avc1", "mp4a", Num(360), Num(600), Missing, Num(30))

\* the 'formats' lists a metadata query may return
FormatLists ==
    { <<>>, <<Muxed>>, <<A128>>, <<V1080, A128, Muxed>>, <<V720n, A160>>, <<V2160, V1080, A160, A128>> }

(***************************************************************************)
(* The output directory                                                    *)
(***************************************************************************)
\* a path is <<name without extension, extension>> (os.path.splitext)
\* names yt-dlp may give the download ("%(title)s.%(ext)s", line 256)
InputNames ==
    { <<"video", ".mp4">>, <<"clip", ".webm">>,
      <<"temp_for_conversion", ".mp4">>, <<"converted_HEVC", ".mp4">> }

\* line 317
temp_file_of(input_file) == <<"temp_for_conversion", input_file[2]>>
\* line 322
final_output_of(input_file) == <<"HEVC_" \o input_file[1], ".mp4">>
\* line 325
temp_output_file == <<"converted_HEVC", ".mp4">>
\* line 606
sw_temp_output_file == <<"converted_HEVC_SW", ".mp4">>
\* line 607
sw_final_output_of(input_file) == <<input_file[1] \o "_HEVC_SW", ".mp4">>

AllPaths ==
    InputNames \cup {temp_output_file, sw_temp_output_file}
    \cup { temp_file_of(f) : f \in InputNames }
    \cup { final_output_of(f) : f \in InputNames }
    \cup { sw_final_output_of(f) : f \in InputNames }

\* files a crashed earlier run may have left behind
StalePaths == {temp_output_file, sw_temp_output_file, <<"temp_for_conversion", ".mp4">>}

exists(dir, p) == dir[p] # "absent"
remove(dir, p) == [dir EXCEPT ![p] = "absent"]
\* shutil.copy2 / shutil.move
copy2(dir, src, dst) == [dir EXCEPT ![dst] = dir[src]]
move(dir, src, dst) == [dir EXCEPT ![dst] = dir[src], ![src] = "absent"]

\* a file operation may raise (permissions, locks, a vanished file)
MayFault == Len(faults) < MaxFaults
Fault(op) == MayFault /\ faults' = Append(faults, op)

(***************************************************************************)
(* Initial state: before main runs                                         *)
(***************************************************************************)
mainLocals == <<tools, info, video_info, best_video, best_audio, confirm, dl, output_file, compress>>
convLocals == <<video_bitrate, audio_bitrate, hw_accel, final_output_file, fb_caller,
                fb_final, fallback_output_file, ret, encLog, fbLog>>

NoRet == [kind |-> "running", path |-> None]

\* nothing fetched or selected yet
InitSelection ==
    /\ video_info = <<>>
    /\ best_video = None
    /\ best_audio = None

InitLocals ==
    /\ exit_status = -1
    /\ tools = "unchecked"
    /\ info = "none"
    /\ confirm = "unasked"
    /\ dl = "none"
    /\ output_file = None
    /\ compress = "unasked"
    /\ faults = <<>>
    /\ video_bitrate = 0
    /\ audio_bitrate = 0
    /\ hw_accel = NotDetected
    /\ final_output_file = None
    /\ fb_caller = 0
    /\ fb_final = None
    /\ fallback_output_file = None
    /\ ret = NoRet
    /\ encLog = <<>>
    /\ fbLog = <<>>

Init ==
    /\ pc = "main_tools"
    /\ InitLocals
    /\ InitSelection
    /\ \E stale \in SUBSET StalePaths :
          fs = [p \in AllPaths |-> IF p \in stale THEN "stale" ELSE "absent"]
    /\ probe = NoProbe

(***************************************************************************)
(* main (713-809), get_video_info (12-45), download_video (212-304)        *)
(***************************************************************************)
\* sys.exit(n), or the interpreter leaving main
Exit(n) == pc' = "exited" /\ exit_status' = n

\* lines 715-736: a missing yt-dlp or ffmpeg is FileNotFoundError -> sys.exit(1)
main_tools ==
    /\ pc = "main_tools"
    /\ \E t \in {"ok", "no_yt-dlp", "no_ffmpeg"} :
          /\ tools' = t
          /\ IF t = "ok" THEN pc' = "main_url" /\ UNCHANGED exit_status ELSE Exit(1)
    /\ UNCHANGED <<info, video_info, best_video, best_audio, confirm, dl, output_file,
                   compress, fs, faults, convLocals, probe>>

\* lines 739-753: empty URL, or an odd URL the user does not insist on
main_url ==
    /\ pc = "main_url"
    /\ \E url \in {"watch", "empty", "odd_continue", "odd_stop"} :
          IF url \in {"empty", "odd_stop"} THEN Exit(1)
          ELSE pc' = "main_info" /\ UNCHANGED exit_status
    /\ UNCHANGED <<mainLocals, fs, faults, convLocals, probe>>

\* line 781 and get_video_info: every outcome but a parsed document is sys.exit(1)
main_info ==
    /\ pc = "main_info"
    /\ \E o \in {"ok", "timeout", "nonzero", "bad_json", "error"} :
          /\ info' = o
          /\ IF o = "ok"
             THEN pc' = "main_select" /\ video_info' \in FormatLists /\ UNCHANGED exit_status
             ELSE Exit(1) /\ UNCHANGED video_info
    /\ UNCHANGED <<tools, best_video, best_audio, confirm, dl, output_file, compress,
                   fs, faults, convLocals, probe>>

\* lines 784-787
main_select ==
    /\ pc = "main_select"
    /\ LET parts == filter_formats(video_info)
           best == get_best_formats(parts.video_formats, parts.audio_formats)
       IN  best_video' = best.video /\ best_audio' = best.audio
    /\ pc' = "main_confirm"
    /\ UNCHANGED <<exit_status, tools, info, video_info, confirm, dl, output_file, compress,
                   fs, faults, convLocals, probe>>

\* lines 794-797: anything but 'y' or the empty answer cancels with status 0
main_confirm ==
    /\ pc = "main_confirm"
    /\ \E a \in {"y", "", "n"} :
          /\ confirm' = a
          /\ IF a # "y" /\ a # "" THEN Exit(0) ELSE pc' = "main_download" /\ UNCHANGED exit_status
    /\ UNCHANGED <<tools, info, video_info, best_video, best_audio, dl, output_file, compress,
                   fs, faults, convLocals, probe>>

\* download_video that overlooks the child's exit status
download_result_ignoring_status(video_format, audio_format, outcome, file) ==
    IF video_format = None /\ audio_format = None THEN None
    ELSE file

\* what download_video returns for an outcome of the yt-dlp child and the
\* file it left (lines 214-216, 283-285, 290-300, 302-304)
download_result(video_format, audio_format, outcome, file) ==
    IF video_format = None /\ audio_format = None THEN None
    ELSE IF outcome = "exit0" THEN file
    ELSE None

\* line 800. No format at all returns at once (214-216). Otherwise the child
\* raises on launch, or exits; a path it printed (278-279) or, after exit 0,
\* the newest file of the directory (290-295) is the located file f; after
\* exit 0 nothing is located only when the directory holds no file (296-298).
main_download ==
    /\ pc = "main_download"
    /\ IF best_video = None /\ best_audio = None THEN
          /\ dl' = "no_format"
          /\ output_file' = download_result(best_video, best_audio, "none", None)
          /\ UNCHANGED fs
       ELSE
          \E o \in {"exception", "nonzero", "exit0"} :
          \E f \in InputNames \cup {None} :
             /\ o = "exception" => f = None
             /\ (o = "exit0" /\ f = None) => \A p \in AllPaths : ~exists(fs, p)
             /\ dl' = o
             /\ output_file' = download_result(best_video, best_audio, o, f)
             /\ fs' = IF f = None THEN fs
                      ELSE [fs EXCEPT ![f] = IF o = "exit0" THEN "orig" ELSE "partial"]
    /\ pc' = "main_compress"
    /\ UNCHANGED <<exit_status, tools, info, video_info, best_video, best_audio, confirm, compress,
                   faults, convLocals, probe>>

\* lines 801-804
main_compress ==
    /\ pc = "main_compress"
    /\ \E a \in {"y", "", "n"} :
          /\ compress' = a
          /\ IF a # "y" /\ a # "" THEN Exit(0) ELSE pc' = "main_convert" /\ UNCHANGED exit_status
    /\ UNCHANGED <<tools, info, video_info, best_video, best_audio, confirm, dl, output_file,
                   fs, faults, convLocals, probe>>

\* lines 806-807 and the guard of convert_to_hevc (308-310, 322)
main_convert ==
    /\ pc = "main_convert"
    /\ IF output_file = None THEN
          Exit(0) /\ UNCHANGED <<ret, final_output_file>>
       ELSE IF ~exists(fs, output_file) THEN
          /\ ret' = [kind |-> "None", path |-> None]
          /\ pc' = "main_return"
          /\ UNCHANGED <<exit_status, final_output_file>>
       ELSE
          /\ final_output_file' = final_output_of(output_file)
          /\ pc' = "c_rm_stale"
          /\ UNCHANGED <<exit_status, ret>>
    /\ UNCHANGED <<mainLocals, fs, faults, video_bitrate, audio_bitrate, hw_accel,
                   fb_caller, fb_final, fallback_output_file, encLog, fbLog, probe>>

\* lines 807-809: convert_to_hevc returned, or an exception left it uncaught
main_return ==
    /\ pc = "main_return"
    /\ Exit(IF ret.kind = "raised" THEN 1 ELSE 0)
    /\ UNCHANGED <<mainLocals, fs, faults, convLocals, probe>>

(***************************************************************************)
(* convert_to_hevc (306-513)                                               *)
(***************************************************************************)
\* the encoder of the detected profile
encoder == hw_accel.profile.encoder

Return(kind, path) == ret' = [kind |-> kind, path |-> path] /\ pc' = "main_return"
ReturnValue(path) == Return(IF path = None THEN "None" ELSE "path", path)

\* "if os.path.exists(p): os.remove(p)": the file goes and control moves to
\* ok, or os.remove raises and control moves to handler
RemoveIfExists(p, ok, handler) ==
    IF exists(fs, p) THEN
        \/ fs' = remove(fs, p) /\ pc' = ok /\ UNCHANGED faults
        \/ Fault("remove") /\ pc' = handler /\ UNCHANGED fs
    ELSE pc' = ok /\ UNCHANGED <<fs, faults>>

\* lines 329-330
c_rm_stale ==
    /\ pc = "c_rm_stale"
    /\ RemoveIfExists(temp_output_file, "c_copy", "c_outer_exc")
    /\ UNCHANGED <<exit_status, mainLocals, convLocals, probe>>

\* line 332: copy2 raises SameFileError when source and destination are one
\* file, FileNotFoundError when the source is gone, or fails on the way
c_copy ==
    /\ pc = "c_copy"
    /\ IF output_file = temp_file_of(output_file) \/ ~exists(fs, output_file) THEN
          pc' = "c_outer_exc" /\ faults' = Append(faults, "copy2") /\ UNCHANGED fs
       ELSE
          \/ /\ fs' = copy2(fs, output_file, temp_file_of(output_file))
             /\ pc' = "c_plan"
             /\ UNCHANGED faults
          \/ /\ Fault("copy2")
             /\ \/ UNCHANGED fs
                \/ fs' = [fs EXCEPT ![temp_file_of(output_file)] = "partial"]
             /\ pc' = "c_outer_exc"
    /\ UNCHANGED <<exit_status, mainLocals, convLocals, probe>>

\* lines 335-369
c_plan ==
    /\ pc = "c_plan"
    /\ LET v == plan_video_bitrate(best_video)
           a == plan_audio_bitrate(best_audio)
       IN  IF v.raised THEN
              pc' = "c_outer_exc" /\ UNCHANGED <<video_bitrate, audio_bitrate>>
           ELSE IF a.raised THEN
              pc' = "c_outer_exc" /\ video_bitrate' = v.kbps /\ UNCHANGED audio_bitrate
           ELSE
              pc' = "c_detect" /\ video_bitrate' = v.kbps /\ audio_bitrate' = a.kbps
    /\ UNCHANGED <<exit_status, mainLocals, fs, faults, hw_accel, final_output_file,
                   fb_caller, fb_final, fallback_output_file, ret, encLog, fbLog, probe>>

\* line 377
c_detect ==
    /\ pc = "c_detect"
    /\ \E e \in ProbeEnvs :
          /\ hw_accel' = detect_hardware_acceleration(e)
          /\ pc' = IF hw_accel'.raised THEN "c_outer_exc" ELSE "c_encode"
    /\ UNCHANGED <<exit_status, mainLocals, fs, faults, video_bitrate, audio_bitrate,
                   final_output_file, fb_caller, fb_final, fallback_output_file, ret,
                   encLog, fbLog, probe>>

\* a value inside an f-string: str(None) is 'None'
format_value(v) == IF v = None THEN "None" ELSE v[1]
\* f'"{path}"'
quoted(p) == "\"" \o p[1] \o p[2] \o "\""
\* f"{n}k" (lines 339-356, 362-369)
kbit(n) == ToString(n) \o "k"

\* lines 372-374
fps_of(video_format) ==
    IF video_format # None /\ video_format[1].fps.t = "num"
    THEN <<video_format[1].fps.n>> ELSE None

\* "if fps: cmd_str += f'-r {fps} '" (lines 394-395, 613-614)
fps_arguments(fps) ==
    IF fps # None /\ fps[1] # 0 THEN <<"-r", ToString(fps[1])>> ELSE <<>>

\* lines 398-410; int(float(b) * 1.5) of a whole number of kbit
encoder_arguments(enc, kbps) ==
    IF enc = "libx265" THEN <<"-crf", "22", "-preset", "medium", "-tag:v", "hvc1">>
    ELSE IF enc = "hevc_nvenc" THEN
        <<"-rc:v", "vbr", "-cq:v", "22", "-b:v", kbit(kbps),
          "-maxrate:v", kbit((kbps * 3) \div 2)>>
    ELSE IF enc = "hevc_videotoolbox" THEN <<"-q:v", "50", "-b:v", kbit(kbps), "-tag:v", "hvc1">>
    ELSE IF enc = "hevc_amf" THEN <<"-quality", "quality", "-b:v", kbit(kbps)>>
    ELSE IF enc = "hevc_qsv" THEN <<"-b:v", kbit(kbps), "-global_quality", "22">>
    ELSE IF enc = "hevc_vaapi" THEN <<"-b:v", kbit(kbps), "-global_quality", "22">>
    ELSE <<>>

\* lines 381-413, as the words of the command line; every option of the
\* profiles (127-207) is a string without a space, so 387-391 add it bare
cmd_str(profile, temp_file, fps, vkbps, akbps) ==
    <<"ffmpeg", "-hwaccel", format_value(profile.hwaccel), "-i", quoted(temp_file),
      "-c:v", profile.encoder>>
    \o profile.options
    \o fps_arguments(fps)
    \o encoder_arguments(profile.encoder, vkbps)
    \o <<"-c:a", "aac", "-b:a", kbit(akbps), quoted(temp_output_file)>>

\* lines 610-620
fallback_cmd_str(input_file, fps, vkbps, akbps) ==
    <<"ffmpeg", "-i", quoted(input_file)>>
    \o fps_arguments(fps)
    \o <<"-c:v", "libx265", "-crf", "22", "-preset", "medium", "-tag:v", "hvc1",
         "-b:v", kbit(vkbps), "-c:a", "aac", "-b:a", kbit(akbps),
         quoted(sw_temp_output_file)>>

\* an ffmpeg child started with cmd, reading src and writing dst: launching or reading its
\* output raises, or it exits; it can exit 0 only when src exists, and then
\* dst holds the encode
Encode(site, enc, cmd, src, dst, o) ==
    /\ o = "exit0" => exists(fs, src)
    /\ encLog' = Append(encLog, [site |-> site, encoder |-> enc, cmd |-> cmd, outcome |-> o])
    /\ \/ o = "exit0" /\ fs' = [fs EXCEPT ![dst] = "hevc"]
       \/ o = "nonzero" /\ fs' = [fs EXCEPT ![dst] = "partial"]
       \/ o # "exit0" /\ UNCHANGED fs

\* lines 381-434, 468, 487
c_encode ==
    /\ pc = "c_encode"
    /\ \E o \in {"exception", "nonzero", "exit0"} :
          /\ Encode("primary", encoder,
                    cmd_str(hw_accel.profile, temp_file_of(output_file), fps_of(best_video),
                            video_bitrate, audio_bitrate),
                    temp_file_of(output_file), temp_output_file, o)
          /\ pc' = IF o = "exit0" THEN "c_size"
                   ELSE IF o = "nonzero" THEN "c_failed" ELSE "c_inner_exc"
    /\ UNCHANGED <<exit_status, mainLocals, faults, video_bitrate, audio_bitrate, hw_accel,
                   final_output_file, fb_caller, fb_final, fallback_output_file, ret,
                   fbLog, probe>>

\* lines 438-440: os.path.getsize of the original and of the output
c_size ==
    /\ pc = "c_size"
    /\ \/ /\ exists(fs, output_file) /\ exists(fs, temp_output_file)
          /\ pc' = "c_rename"
          /\ UNCHANGED faults
       \/ /\ ~(exists(fs, output_file) /\ exists(fs, temp_output_file))
          /\ pc' = "c_inner_exc"
          /\ faults' = Append(faults, "getsize")
       \/ /\ Fault("getsize")
          /\ pc' = "c_inner_exc"
    /\ UNCHANGED <<exit_status, mainLocals, fs, convLocals, probe>>

\* lines 448-458: remove a final file already there, move the output onto the
\* final name; on any exception the temporary name becomes the result
c_rename ==
    /\ pc = "c_rename"
    /\ \/ /\ fs' = move(fs, temp_output_file, final_output_file)
          /\ UNCHANGED <<faults, final_output_file>>
       \/ /\ Fault("remove") /\ exists(fs, final_output_file)
          /\ final_output_file' = temp_output_file
          /\ UNCHANGED fs
       \/ /\ Fault("move")
          /\ fs' = remove(fs, final_output_file)
          /\ final_output_file' = temp_output_file
    /\ pc' = "c_del_temp"
    /\ UNCHANGED <<exit_status, mainLocals, video_bitrate, audio_bitrate, hw_accel,
                   fb_caller, fb_final, fallback_output_file, ret, encLog, fbLog, probe>>

\* lines 461-462
c_del_temp ==
    /\ pc = "c_del_temp"
    /\ RemoveIfExists(temp_file_of(output_file), "c_del_orig", "c_inner_exc")
    /\ UNCHANGED <<exit_status, mainLocals, convLocals, probe>>

\* lines 464-465
c_del_orig ==
    /\ pc = "c_del_orig"
    /\ RemoveIfExists(output_file, "c_return_final", "c_inner_exc")
    /\ UNCHANGED <<exit_status, mainLocals, convLocals, probe>>

\* line 467
c_return_final ==
    /\ pc = "c_return_final"
    /\ ReturnValue(final_output_file)
    /\ UNCHANGED <<exit_status, mainLocals, fs, faults, video_bitrate, audio_bitrate,
                   hw_accel, final_output_file, fb_caller, fb_final,
                   fallback_output_file, encLog, fbLog, probe>>

\* the call of convert_to_hevc_fallback at the given line: its names (606-607)
CallFallback(site) ==
    /\ fb_caller' = site
    /\ fb_final' = sw_final_output_of(output_file)
    /\ pc' = "f_encode"
    /\ UNCHANGED <<fallback_output_file, ret>>

\* lines 468-474 and 486: the primary encoder exited non-zero
c_failed ==
    /\ pc = "c_failed"
    /\ IF encoder # "libx265" THEN CallFallback(474)
       ELSE Return("None", None) /\ UNCHANGED <<fb_caller, fb_final, fallback_output_file>>
    /\ UNCHANGED <<exit_status, mainLocals, fs, faults, video_bitrate, audio_bitrate,
                   hw_accel, final_output_file, encLog, fbLog, probe>>

\* lines 477-478
c_fb_cleanup_474 ==
    /\ pc = "c_fb_cleanup_474"
    /\ RemoveIfExists(temp_file_of(output_file), "c_return_fallback", "c_inner_exc")
    /\ UNCHANGED <<exit_status, mainLocals, convLocals, probe>>

\* lines 480 and 499
c_return_fallback ==
    /\ pc = "c_return_fallback"
    /\ ReturnValue(fallback_output_file)
    /\ UNCHANGED <<exit_status, mainLocals, fs, faults, video_bitrate, audio_bitrate,
                   hw_accel, final_output_file, fb_caller, fb_final,
                   fallback_output_file, encLog, fbLog, probe>>

\* lines 487-493: the handler of every exception raised between 421 and 486
c_inner_exc ==
    /\ pc = "c_inner_exc"
    /\ IF encoder # "libx265" THEN CallFallback(493)
       ELSE pc' = "c_exc_cleanup" /\ UNCHANGED <<fb_caller, fb_final, fallback_output_file, ret>>
    /\ UNCHANGED <<exit_status, mainLocals, fs, faults, video_bitrate, audio_bitrate,
                   hw_accel, final_output_file, encLog, fbLog, probe>>

\* lines 496-497
c_fb_cleanup_493 ==
    /\ pc = "c_fb_cleanup_493"
    /\ RemoveIfExists(temp_file_of(output_file), "c_return_fallback", "c_outer_exc")
    /\ UNCHANGED <<exit_status, mainLocals, convLocals, probe>>

\* lines 502-503
c_exc_cleanup ==
    /\ pc = "c_exc_cleanup"
    /\ RemoveIfExists(temp_file_of(output_file), "c_return_none", "c_outer_exc")
    /\ UNCHANGED <<exit_status, mainLocals, convLocals, probe>>

\* lines 505 and 513
c_return_none ==
    /\ pc = "c_return_none"
    /\ Return("None", None)
    /\ UNCHANGED <<exit_status, mainLocals, fs, faults, video_bitrate, audio_bitrate,
                   hw_accel, final_output_file, fb_caller, fb_final,
                   fallback_output_file, encLog, fbLog, probe>>

\* lines 506-511: the handler of every exception raised between 327 and 505;
\* an exception of its own os.remove leaves convert_to_hevc
c_outer_exc ==
    /\ pc = "c_outer_exc"
    /\ IF exists(fs, temp_file_of(output_file)) THEN
          \/ /\ fs' = remove(fs, temp_file_of(output_file))
             /\ pc' = "c_return_none"
             /\ UNCHANGED <<faults, ret>>
          \/ /\ Fault("remove")
             /\ Return("raised", None)
             /\ UNCHANGED fs
       ELSE pc' = "c_return_none" /\ UNCHANGED <<fs, faults, ret>>
    /\ UNCHANGED <<exit_status, mainLocals, video_bitrate, audio_bitrate, hw_accel,
                   final_output_file, fb_caller, fb_final, fallback_output_file,
                   encLog, fbLog, probe>>

(***************************************************************************)
(* convert_to_hevc_fallback (595-671; the definition at 516-592 is         *)
(* replaced by this identical one)                                         *)
(***************************************************************************)
\* "return x" of the fallback: back to the line after the call
FallbackReturns(path) ==
    /\ fallback_output_file' = path
    /\ fbLog' = Append(fbLog, path)
    /\ pc' = IF fb_caller = 474 THEN "c_fb_cleanup_474" ELSE "c_fb_cleanup_493"

\* lines 610-639, 666-671
f_encode ==
    /\ pc = "f_encode"
    /\ \E o \in {"exception", "nonzero", "exit0"} :
          /\ Encode("fallback", "libx265",
                    fallback_cmd_str(temp_file_of(output_file), fps_of(best_video),
                                     video_bitrate, audio_bitrate),
                    temp_file_of(output_file), sw_temp_output_file, o)
          /\ IF o = "exit0" THEN pc' = "f_size" /\ UNCHANGED <<fallback_output_file, fbLog>>
             ELSE FallbackReturns(None)
    /\ UNCHANGED <<exit_status, mainLocals, faults, video_bitrate, audio_bitrate, hw_accel,
                   final_output_file, fb_caller, fb_final, ret, probe>>

\* lines 643-645, with the handler at 669-671
f_size ==
    /\ pc = "f_size"
    /\ \/ /\ exists(fs, temp_file_of(output_file)) /\ exists(fs, sw_temp_output_file)
          /\ pc' = "f_rename"
          /\ UNCHANGED <<faults, fallback_output_file, fbLog>>
       \/ /\ ~(exists(fs, temp_file_of(output_file)) /\ exists(fs, sw_temp_output_file))
          /\ FallbackReturns(None)
          /\ faults' = Append(faults, "getsize")
       \/ /\ Fault("getsize")
          /\ FallbackReturns(None)
    /\ UNCHANGED <<exit_status, mainLocals, fs, video_bitrate, audio_bitrate, hw_accel,
                   final_output_file, fb_caller, fb_final, ret, encLog, probe>>

\* lines 653-665
f_rename ==
    /\ pc = "f_rename"
    /\ \/ /\ fs' = move(fs, sw_temp_output_file, fb_final)
          /\ FallbackReturns(fb_final)
          /\ UNCHANGED <<faults, fb_final>>
       \/ /\ Fault("remove") /\ exists(fs, fb_final)
          /\ fb_final' = sw_temp_output_file
          /\ FallbackReturns(sw_temp_output_file)
          /\ UNCHANGED fs
       \/ /\ Fault("move")
          /\ fs' = remove(fs, fb_final)
          /\ fb_final' = sw_temp_output_file
          /\ FallbackReturns(sw_temp_output_file)
    /\ UNCHANGED <<exit_status, mainLocals, video_bitrate, audio_bitrate, hw_accel,
                   final_output_file, fb_caller, ret, encLog, probe>>

(***************************************************************************)
(* The run                                                                 *)
(***************************************************************************)
Next ==
    \/ main_tools \/ main_url \/ main_info \/ main_select \/ main_confirm
    \/ main_download \/ main_compress \/ main_convert \/ main_return
    \/ c_rm_stale \/ c_copy \/ c_plan \/ c_detect \/ c_encode \/ c_size \/ c_rename
    \/ c_del_temp \/ c_del_orig \/ c_return_final \/ c_failed \/ c_fb_cleanup_474
    \/ c_return_fallback \/ c_inner_exc \/ c_fb_cleanup_493 \/ c_exc_cleanup
    \/ c_return_none \/ c_outer_exc
    \/ f_encode \/ f_size \/ f_rename

Spec == Init /\ [][Next]_vars

(***************************************************************************)
(* The prober on its own: every host, one call                             *)
(***************************************************************************)
InitDetect ==
    /\ pc = "detect"
    /\ InitLocals
    /\ InitSelection
    /\ fs = [p \in AllPaths |-> "absent"]
    /\ probe \in ProbeEnvs

Detect ==
    /\ pc = "detect"
    /\ hw_accel' = detect_hardware_acceleration(probe)
    /\ pc' = "detected"
    /\ UNCHANGED <<exit_status, mainLocals, fs, faults, video_bitrate, audio_bitrate,
                   final_output_file, fb_caller, fb_final, fallback_output_file, ret,
                   encLog, fbLog, probe>>

NextDetect == Detect

SpecDetect == InitDetect /\ [][NextDetect]_vars

(***************************************************************************)
(* The selector on its own: every short list of descriptors, one call of   *)
(* filter_formats and get_best_formats (main, 784-787)                     *)
(***************************************************************************)
\* codecs, height and tbr of the descriptors tried; the muxed and the
\* codec-less entries carry the largest keys
DescriptorPool ==
    { <<"avc1", "none", Num(1080), Num(200)>>,
      <<"avc1", "none", Num(1080), Num(100)>>,
      <<"avc1", "none", Num(720), Num(200)>>,
      <<"avc1", "none", Null, Num(200)>>,
      <<"avc1", "none", Num(1080), Null>>,
      <<"vp9", "none", Missing, Missing>>,
      <<"missing", "none", Num(720), Num(100)>>,
      <<"none", "mp4a", Missing, Num(100)>>,
      <<"none", "opus", Missing, Num(200)>>,
      <<"none", "mp4a", Missing, Null>>,
      <<"avc1", "mp4a", Num(2160), Num(900)>>,
      <<"none", "none", Num(2160), Num(900)>> }

\* the i-th entry of a list gets format_id i
NumberedList(l) ==
    [i \in 1..Len(l) |-> Descriptor(ToString(i), l[i][1], l[i][2], l[i][3], l[i][4], Missing, Missing)]

SelectorInputs ==
    { NumberedList(l) : l \in UNION { [1..n -> DescriptorPool] : n \in 0..MaxFormats } }

InitSelect ==
    /\ pc = "main_select"
    /\ InitLocals
    /\ video_info \in SelectorInputs
    /\ best_video = None
    /\ best_audio = None
    /\ fs = [p \in AllPaths |-> "absent"]
    /\ probe = NoProbe

NextSelect == main_select

SpecSelect == InitSelect /\ [][NextSelect]_vars

(***************************************************************************)
(* The bitrate planning on its own: every pair of descriptors, one pass    *)
(* through lines 335-369 of convert_to_hevc                                *)
(***************************************************************************)
FieldValues(numbers) == {Missing, Null} \cup { Num(n) : n \in numbers }

\* the video descriptors planned for: None, or a video-only entry with each
\* of tbr and height missing, null or a number around the tier limits
PlanVideos ==
    {None} \cup
    { <<Descriptor("v", "avc1", "none", h, t, Missing, Missing)>> :
        h \in FieldValues({480, 719, 720, 1080, 1439, 1440, 2159, 2160}),
        t \in FieldValues({2500, 5000}) }

\* the audio descriptors planned for: None, or an audio-only entry with each
\* of tbr and abr missing, null or a number
PlanAudios ==
    {None} \cup
    { <<Descriptor("a", "none", "mp4a", Missing, t, a, Missing)>> :
        t \in FieldValues({128}), a \in FieldValues({160}) }

InitPlan ==
    /\ pc = "c_plan"
    /\ InitLocals
    /\ video_info = <<>>
    /\ best_video \in PlanVideos
    /\ best_audio \in PlanAudios
    /\ fs = [p \in AllPaths |-> "absent"]
    /\ probe = NoProbe

NextPlan == c_plan

SpecPlan == InitPlan /\ [][NextPlan]_vars

(***************************************************************************)
(* Properties                                                              *)
(***************************************************************************)
\* convert_to_hevc is back in main: it returned a value, or an exception left it
Left == pc = "main_return"
Returning == Left /\ ret.kind # "raised"
SomeEncodeSucceeded == \E i \in DOMAIN encLog : encLog[i].outcome = "exit0"
FallbackStarts == {i \in DOMAIN encLog : encLog[i].site = "fallback"}

\* C1: in one run of convert_to_hevc the software encoder
\* (convert_to_hevc_fallback) is started at most once, whatever the encoders'
\* exit statuses and whichever file operations raise.
C1_FallbackAtMostOnce == Cardinality(FallbackStarts) <= 1

\* C2: an exception of a file operation never starts an encoder: every
\* encoder started after the first one directly follows a primary encoder
\* that did not exit 0, so nothing is started once the primary exited 0.
C2_FileOpNeverStartsEncoder ==
    \A i \in DOMAIN encLog :
        i > 1 => /\ encLog[i - 1].site = "primary"
                 /\ encLog[i - 1].outcome # "exit0"

\* C3: when convert_to_hevc returns and no encoder exited 0 in the run, the
\* original downloaded file still exists.
C3_OriginalKeptWithoutSuccess ==
    (Returning /\ ~SomeEncodeSucceeded) => exists(fs, output_file)

\* the names convert_to_hevc and its fallback give an encoded file
HEVCNames(input_file) ==
    {final_output_of(input_file), sw_final_output_of(input_file),
     temp_output_file, sw_temp_output_file}

\* C4: when convert_to_hevc returns a path (success by the primary encoder or
\* by the software fallback), the original file is gone and the returned
\* file has an HEVC name.
C4_SuccessDeletesOriginal ==
    (Returning /\ ret.kind = "path") =>
        /\ ~exists(fs, output_file)
        /\ ret.path \in HEVCNames(output_file)

\* C5: when an encoder exited 0 and the only file operations that raised are
\* renames (move) and deletes (remove), convert_to_hevc returns a path, for
\* every profile.
C5_FileOpFailureKeepsSuccess ==
    (/\ Returning
     /\ SomeEncodeSucceeded
     /\ \A i \in DOMAIN faults : faults[i] \in {"remove", "move"})
    => ret.kind = "path"

\* the fatal conditions of a run that went on to its end
ToolMissing == tools \in {"no_yt-dlp", "no_ffmpeg"}
MetadataFailure == info \in {"timeout", "nonzero", "bad_json"}
NoUsableFormat == dl = "no_format" /\ compress \in {"y", ""}
DownloadFailure == dl = "nonzero" /\ compress \in {"y", ""}
SoftwareEncodeFailure ==
    /\ encLog # <<>>
    /\ encLog[Len(encLog)].encoder = "libx265"
    /\ encLog[Len(encLog)].outcome # "exit0"
    /\ ret.kind = "None"
Fatal ==
    ToolMissing \/ MetadataFailure \/ NoUsableFormat \/ DownloadFailure \/ SoftwareEncodeFailure

\* C6: a run of main that ends in a fatal condition ends with a non-zero exit
\* status.
C6_FatalExitsNonZero == (pc = "exited" /\ Fatal) => exit_status # 0

\* C7: an encoder is started only after the metadata fetch succeeded, the
\* fetch tool exited 0, a downloaded file was located, and the user accepted
\* the conversion ('y' or the empty answer); so after a download failure no
\* encoder is ever started.
C7_EncodeOnlyAfterDownload ==
    encLog # <<>> =>
        /\ info = "ok"
        /\ dl = "exit0"
        /\ output_file # None
        /\ compress \in {"y", ""}

\* an encoder is running on the located download: the fetch tool exited 0 and
\* the primary encoder has been started
C7_Witness ==
    /\ pc = "c_size"
    /\ Len(encLog) = 1
    /\ dl = "exit0"
    /\ output_file = <<"video", ".mp4">>

\* C8: when the primary encoder fails and the profile is not the software
\* one, the software encoder is tried next and what it returns is what
\* convert_to_hevc returns; with the software profile nothing more is started
\* and convert_to_hevc returns None.
C8_FallbackResultIsResult ==
    (Returning /\ encLog # <<>> /\ encLog[1].outcome # "exit0") =>
        IF encLog[1].encoder # "libx265"
        THEN /\ Len(encLog) >= 2
             /\ encLog[2].site = "fallback"
             /\ ret.path = fbLog[1]
        ELSE Len(encLog) = 1 /\ ret.kind = "None"

\* C9: detect_hardware_acceleration raises nothing, on every platform and for
\* every outcome of every probe.
C9_DetectNeverRaises == pc = "detected" => ~hw_accel.raised

\* first profile of a priority table <<condition, profile>> whose condition holds
RECURSIVE FirstMatch(_)
FirstMatch(table) ==
    IF table = <<>> THEN Software
    ELSE IF Head(table)[1] THEN Head(table)[2]
    ELSE FirstMatch(Tail(table))

NvidiaFound(e) == e.nvidia = "exit0"
EnumerationRan(e) == e.powershell \in {"exit0", "exit1"}
VaapiFound(e) == e.vainfo = "exit0" /\ e.va_hevc

\* the order as the claim has it: the AMD text check on Windows and on Linux
ClaimedProfile(e) ==
    IF e.system = "Darwin" THEN VideoToolbox
    ELSE IF e.system = "Windows" THEN
        FirstMatch(<< <<NvidiaFound(e), Nvenc>>,
                      <<EnumerationRan(e) /\ "AMD" \in e.gpu_text, Amf>>,
                      <<EnumerationRan(e) /\ "Intel" \in e.gpu_text, Qsv>> >>)
    ELSE IF e.system = "Linux" THEN
        FirstMatch(<< <<NvidiaFound(e), Nvenc>>,
                      <<"AMD" \in e.gpu_text, Amf>>,
                      <<VaapiFound(e), Vaapi>> >>)
    ELSE Software

\* the order with the text checks on Windows only
PriorityProfile(e) ==
    IF e.system = "Darwin" THEN VideoToolbox
    ELSE IF e.system = "Windows" THEN
        FirstMatch(<< <<NvidiaFound(e), Nvenc>>,
                      <<EnumerationRan(e) /\ "AMD" \in e.gpu_text, Amf>>,
                      <<EnumerationRan(e) /\ "Intel" \in e.gpu_text, Qsv>> >>)
    ELSE IF e.system = "Linux" THEN
        FirstMatch(<< <<NvidiaFound(e), Nvenc>>,
                      <<VaapiFound(e), Vaapi>> >>)
    ELSE Software

\* C10 as claimed: the returned profile is the first match of NVIDIA, AMD
\* (text marker, Windows and Linux), Intel (Windows), generic API (Linux),
\* else software.
C10_ClaimedOrder ==
    (pc = "detected" /\ ~hw_accel.raised) => hw_accel.profile = ClaimedProfile(probe)

\* C10 amended: the returned profile is the first match of NVIDIA, then on
\* Windows AMD and Intel by the enumeration text, then on Linux the generic
\* API encoder; software when nothing matched. Linux has no text check.
C10_PriorityOrder ==
    (pc = "detected" /\ ~hw_accel.raised) => hw_accel.profile = PriorityProfile(probe)

\* a Windows host without NVIDIA whose enumeration names both AMD and Intel:
\* the AMD encoder is returned
C10_Witness ==
    /\ pc = "detected"
    /\ probe.system = "Windows"
    /\ probe.nvidia = "exit1"
    /\ probe.powershell = "exit0"
    /\ probe.gpu_text = {"AMD", "Intel"}
    /\ hw_accel = Returned(Amf)

\* the selector has returned
Selected == pc = "main_confirm"

\* C11: a returned video descriptor has audio codec "none" and a video codec
\* other than "none"; a returned audio descriptor has video codec "none" and
\* an audio codec other than "none"; each is an entry of the input list.
C11_SelectedAreSingleStream ==
    Selected =>
        /\ best_video # None =>
              /\ best_video[1].acodec = "none"
              /\ best_video[1].vcodec # "none"
              /\ \E i \in DOMAIN video_info : video_info[i] = best_video[1]
        /\ best_audio # None =>
              /\ best_audio[1].vcodec = "none"
              /\ best_audio[1].acodec # "none"
              /\ \E i \in DOMAIN video_info : video_info[i] = best_audio[1]

\* a list whose muxed entry has the largest height and bitrate, and the
\* video-only and audio-only entries behind it are the ones returned
C11_Witness ==
    /\ Selected
    /\ Len(video_info) = 3
    /\ video_info[1].vcodec = "avc1" /\ video_info[1].acodec = "mp4a"
    /\ best_video = <<video_info[2]>>
    /\ best_audio = <<video_info[3]>>

\* a missing or null entry counts as zero
Zeroed(f) == IF f.t = "num" THEN f.n ELSE 0
Qualifies(d) == d.vcodec # "none" /\ d.acodec = "none"
\* (height, total_bitrate) of a is at least that of b, lexicographically
RankAtLeast(a, b) ==
    \/ Zeroed(a.height) > Zeroed(b.height)
    \/ Zeroed(a.height) = Zeroed(b.height) /\ Zeroed(a.tbr) >= Zeroed(b.tbr)
\* the first qualifying entry that no qualifying entry outranks
FirstMaximal(list) ==
    CHOOSE i \in DOMAIN list :
        /\ Qualifies(list[i])
        /\ \A j \in DOMAIN list : Qualifies(list[j]) => RankAtLeast(list[i], list[j])
        /\ \A j \in 1..(i - 1) : Qualifies(list[j]) => ~RankAtLeast(list[j], list[i])

\* C12: with at least one video-only entry, the best video is the first entry
\* in input order that attains the maximum of (height, total_bitrate), a
\* missing or null value counting as zero.
C12_BestVideoIsFirstMaximum ==
    (Selected /\ \E i \in DOMAIN video_info : Qualifies(video_info[i])) =>
        best_video = <<video_info[FirstMaximal(video_info)]>>

\* two video-only entries of equal rank, a lower one before them: the first
\* of the two is returned
C12_Witness ==
    /\ Selected
    /\ Len(video_info) = 3
    /\ \A i \in 1..3 : Qualifies(video_info[i])
    /\ ~RankAtLeast(video_info[1], video_info[2])
    /\ RankAtLeast(video_info[2], video_info[3]) /\ RankAtLeast(video_info[3], video_info[2])
    /\ best_video = <<video_info[2]>>

\* lines 335-369 have been passed, or left by an exception
PlanDone == pc \in {"c_detect", "c_outer_exc"}

\* the tier of a height as the claim lists it
ClaimedTier(h) ==
    CASE h >= 2160 -> 30000
      [] h >= 1440 /\ h < 2160 -> 15000
      [] h >= 1080 /\ h < 1440 -> 8000
      [] h >= 720 /\ h < 1080 -> 4000
      [] h < 720 -> 2000

\* the cases the claim speaks of: no descriptor, a total_bitrate given, or a
\* total_bitrate absent (missing or null) with a height given
VideoCaseClaimed(v) == v = None \/ v[1].tbr.t = "num" \/ v[1].height.t = "num"

ClaimedVideoKbps(v) ==
    IF v = None THEN 8000
    ELSE IF v[1].tbr.t = "num" THEN v[1].tbr.n
    ELSE ClaimedTier(v[1].height.n)

\* C13: the planned video bitrate is the descriptor's total_bitrate when it
\* gives one, the tier of its height when the total_bitrate is missing or
\* null, and 8000k without a descriptor.
C13_VideoBitrate ==
    (PlanDone /\ VideoCaseClaimed(best_video)) =>
        video_bitrate = ClaimedVideoKbps(best_video)

ClaimedAudioKbps(a) ==
    IF a = None THEN 192
    ELSE IF a[1].tbr.t = "num" THEN a[1].tbr.n
    ELSE IF a[1].abr.t = "num" THEN a[1].abr.n
    ELSE 192

\* C14: the planned audio bitrate is the descriptor's total_bitrate when it
\* gives one, else its abr when it gives one, else 192k, for every
\* combination of missing, null and number (the video part having planned).
C14_AudioBitrate ==
    (PlanDone /\ ~plan_video_bitrate(best_video).raised) =>
        audio_bitrate = ClaimedAudioKbps(best_audio)

\* C15: whenever an encoder is about to be started (the primary encoder of
\* convert_to_hevc, the software encoder of convert_to_hevc_fallback), no file
\* exists at that encoder's temporary output path and the temporary input
\* copy is this run's copy of the downloaded file.
EncoderOutputAt(at) == IF at = "c_encode" THEN temp_output_file ELSE sw_temp_output_file
C15_StaleTemporariesCleared ==
    \A at \in {"c_encode", "f_encode"} :
        pc = at => /\ ~exists(fs, EncoderOutputAt(at))
                   /\ fs[temp_file_of(output_file)] = "orig"

\* C16: when convert_to_hevc returns (a value, not an exception), the
\* temporary input copy it made (temp_for_conversion.<ext>) does not exist.
C16_TempCopyGoneOnReturn ==
    Returning => fs[temp_file_of(output_file)] \notin {"orig", "partial"}

\* C17: the command composed by convert_to_hevc carries a -hwaccel argument
\* only when the detected profile has a hardware-acceleration name; for the
\* software profile (hwaccel None) the command has no -hwaccel argument.
HasHwaccelArgument(cmd) == \E i \in DOMAIN cmd : cmd[i] = "-hwaccel"
C17_HwaccelOnlyWithName ==
    \A i \in DOMAIN encLog :
        encLog[i].site = "primary" =>
            (HasHwaccelArgument(encLog[i].cmd) <=> hw_accel.profile.hwaccel # None)

====
